---- MODULE Spec2Model ----
(***************************************************************************)
(* A model of gogit (src/git.go, the current copy at lines 228-534): the   *)
(* cached lookup of the git executable, the command runner and its stderr  *)
(* passthrough, the marker-file state detector, CherryPick, and the        *)
(* porcelain status parser.                                                *)
(*                                                                         *)
(* Text that the code inspects byte by byte (the output of `git status`,   *)
(* the content of CHERRY_PICK_HEAD) is a sequence of byte values.  Text    *)
(* that the code only passes along (paths of the executable, captured      *)
(* stderr, error values) is a TLA+ string.                                 *)
(***************************************************************************)
EXTENDS Integers, Sequences, FiniteSets, TLC

\* ------------------------------------------------------------------------
\* Bounds of the model.
\* ------------------------------------------------------------------------
\* Number of runGit invocations (hence getGitPath calls) in one process.
MaxCalls == 2
\* Number of marker files that exist under .git at the same time.
MaxMarkers == 2
\* Number of lines of a porcelain output handed to parseStatus.
MaxLines == 2
\* Number of tokens a path payload of a status line is built from.
MaxTokens == 2

\* ------------------------------------------------------------------------
\* Error values: the message of the error and the values formatted into it.
\* Nil is Go's nil error.
\* ------------------------------------------------------------------------
Nil == <<>>
\* exec.ErrNotFound, wrapped by exec.LookPath
ErrNotFound == <<"exec: \"git\": executable file not found in $PATH">>
\* *exec.ExitError: the process ran and exited non-zero
ExitError == <<"exit status 1">>
\* an error of cmd.Run that is not an *exec.ExitError: the process did not start
StartError == <<"fork/exec git: no such file or directory">>
\* an error of cmd.Run that is not an *exec.ExitError: I/O problem while waiting
IOError == <<"read |0: input/output error">>
\* an error of os.Stat for which os.IsNotExist is false
StatError == <<"stat: permission denied">>
\* the error of ioutil.ReadFile on a file that does not exist
ReadError == <<"open CHERRY_PICK_HEAD: no such file or directory">>

\* ------------------------------------------------------------------------
\* getGitPath
\* ------------------------------------------------------------------------
\* Places where a git executable may be installed.
GitLocations == {"/usr/bin/git", "/usr/local/bin/git"}

\* exec.LookPath("git") when the search path resolves git to `env`
\* ("" when no git is on the search path).
LookPath(env) ==
    IF env = "" THEN [path |-> "", err |-> ErrNotFound]
                ELSE [path |-> env, err |-> Nil]

\* A getGitPath that searches on every call.
getGitPathNoCache(cached, env) ==
    LET lp == LookPath(env)
    IN  IF lp.err # Nil
        THEN [path |-> "", err |-> lp.err, gitPath |-> cached, searched |-> TRUE]
        ELSE [path |-> lp.path, err |-> Nil, gitPath |-> lp.path, searched |-> TRUE]

\* getGitPath: `cached` is the package variable gitPath before the call; the
\* result carries the returned (path, err), the package variable after the
\* call, and whether exec.LookPath was called.
getGitPath(cached, env) ==
    IF cached = ""
    THEN LET lp == LookPath(env)
         IN  IF lp.err # Nil
             THEN [path |-> "", err |-> lp.err, gitPath |-> cached, searched |-> TRUE]
             ELSE [path |-> lp.path, err |-> Nil, gitPath |-> lp.path, searched |-> TRUE]
    ELSE [path |-> cached, err |-> Nil, gitPath |-> cached, searched |-> FALSE]

\* ------------------------------------------------------------------------
\* runGit
\* ------------------------------------------------------------------------
\* What a git process that ran wrote to its stderr.
StderrTexts == {"error: could not apply 1a2b3c"}

\* The outcomes of cmd.Run() for a command started from `path` while git is
\* installed at `env`: the error of cmd.Run and the text captured from the
\* child's stdout (one of `outs`) and stderr.  A process that did not start
\* wrote nothing; a command whose path no longer names the executable does
\* not start.
CmdRuns(path, env, outs) ==
    {[err |-> StartError, stdout |-> <<>>, stderr |-> ""]}
    \cup (IF path = env
          THEN [err : {Nil, ExitError, IOError}, stdout : outs, stderr : StderrTexts]
          ELSE {})

\* cmd.Run() ran the child process (it may have changed the repository).
Ran(run) == run.err # StartError

\* fmt.Fprintf(os.Stderr, "%s", text): what the call adds to the error
\* stream, as a sequence of texts.  An empty text adds nothing.
Fprintf(text) == IF text = "" THEN <<>> ELSE <<text>>

\* A runGit that writes the captured stderr on every failure of cmd.Run().
runGitAlwaysPrints(printError, cached, env, run) ==
    LET gp == getGitPath(cached, env)
    IN  IF gp.err # Nil
        THEN [stdout |-> <<>>, stderr |-> "", err |-> gp.err, written |-> <<>>,
              gitPath |-> gp.gitPath, searched |-> gp.searched, started |-> FALSE,
              printError |-> printError]
        ELSE [stdout |-> run.stdout, stderr |-> run.stderr, err |-> run.err,
              written |-> IF run.err # Nil THEN Fprintf(run.stderr) ELSE <<>>,
              gitPath |-> gp.gitPath, searched |-> gp.searched, started |-> TRUE,
              printError |-> printError]

\* runGit(repoPath, printError, arg...): `run` is the outcome of cmd.Run()
\* should the command be run.  The result carries the returned
\* (stdout, stderr, err), the texts the call added to os.Stderr, the
\* package variable gitPath after the call, whether exec.LookPath was called,
\* whether cmd.Run() was called, and the printError the caller passed.
runGit(printError, cached, env, run) ==
    LET gp == getGitPath(cached, env)
    IN  IF gp.err # Nil
        THEN [stdout |-> <<>>, stderr |-> "", err |-> gp.err, written |-> <<>>,
              gitPath |-> gp.gitPath, searched |-> gp.searched, started |-> FALSE,
              printError |-> printError]
        ELSE LET pe == IF run.err # Nil /\ run.err # ExitError THEN TRUE ELSE printError
             IN  [stdout |-> run.stdout, stderr |-> run.stderr, err |-> run.err,
                  written |-> IF run.err # Nil /\ pe THEN Fprintf(run.stderr) ELSE <<>>,
                  gitPath |-> gp.gitPath, searched |-> gp.searched, started |-> TRUE,
              printError |-> printError]

\* ------------------------------------------------------------------------
\* Repository state: marker files under .git
\* ------------------------------------------------------------------------
StateNone == 0
StateRebaseInteractive == 1
StateRebaseMerge == 2
StateRebase == 3
StateApplyMailbox == 4
StateApplyMailboxOrRebase == 5
StateMerge == 6
StateRevert == 7
StateCherryPick == 8
StateBisect == 9

\* The keys of the stateFiles map, in the order of the map literal.
StateFileNames ==
    << "rebase-merge/interactive", "rebase-merge", "rebase-apply/rebasing",
       "rebase-apply/applying", "rebase-apply", "MERGE_HEAD", "REVERT_HEAD",
       "CHERRY_PICK_HEAD", "BISECT_LOG" >>

MarkerFiles == {StateFileNames[i] : i \in 1..Len(StateFileNames)}

\* The stateFiles map.
stateFiles ==
    [f \in MarkerFiles |->
        CASE f = "rebase-merge/interactive" -> StateRebaseInteractive
          [] f = "rebase-merge"             -> StateRebaseMerge
          [] f = "rebase-apply/rebasing"    -> StateRebase
          [] f = "rebase-apply/applying"    -> StateApplyMailbox
          [] f = "rebase-apply"             -> StateApplyMailboxOrRebase
          [] f = "MERGE_HEAD"               -> StateMerge
          [] f = "REVERT_HEAD"              -> StateRevert
          [] f = "CHERRY_PICK_HEAD"         -> StateCherryPick
          [] f = "BISECT_LOG"               -> StateBisect]

\* The directory a marker file lives in, when it is not .git itself.
ParentOf(f) ==
    CASE f = "rebase-merge/interactive" -> "rebase-merge"
      [] f = "rebase-apply/rebasing"    -> "rebase-apply"
      [] f = "rebase-apply/applying"    -> "rebase-apply"
      [] OTHER                          -> ""

\* The sets of marker files a file system can hold: a file exists only
\* inside an existing directory.
ValidFiles(fs) ==
    /\ fs \subseteq MarkerFiles
    /\ \A f \in fs : ParentOf(f) # "" => ParentOf(f) \in fs

\* HasGitFile(name) on a file system holding the marker files `fs`, where
\* os.Stat fails with an error other than "not exist" for the files of `bad`.
HasGitFile(name, fs, bad) ==
    IF name \in bad THEN [b |-> FALSE, err |-> StatError]
    ELSE IF name \notin fs THEN [b |-> FALSE, err |-> Nil]
    ELSE [b |-> TRUE, err |-> Nil]

\* The orders in which `range stateFiles` may visit the map.  Go leaves the
\* order unspecified and starts each loop at a random position.  The loop of
\* State returns at the first file whose check is not a clean "not exist",
\* so its result depends only on which of those files is visited first; the
\* rotations of the literal order make each of them the first one.
Rotation(k) ==
    [i \in 1..Len(StateFileNames) |->
        StateFileNames[((i + k - 1) % Len(StateFileNames)) + 1]]

IterationOrders == {Rotation(k) : k \in 0..(Len(StateFileNames) - 1)}

RECURSIVE StateLoop(_, _, _, _)
\* The loop of State over the files order[i], order[i+1], ...
StateLoop(order, i, fs, bad) ==
    IF i > Len(order) THEN [state |-> StateNone, err |-> Nil]
    ELSE LET h == HasGitFile(order[i], fs, bad)
         IN  IF h.err # Nil THEN [state |-> 0, err |-> h.err]
             ELSE IF h.b THEN [state |-> stateFiles[order[i]], err |-> Nil]
             ELSE StateLoop(order, i + 1, fs, bad)

\* A State that reports StateNone when the loop did not start at a marker
\* that exists.
StateFirstOnly(order, fs, bad) ==
    LET h == HasGitFile(order[1], fs, bad)
    IN  IF h.err # Nil THEN [state |-> 0, err |-> h.err]
        ELSE IF h.b THEN [state |-> stateFiles[order[1]], err |-> Nil]
        ELSE [state |-> StateNone, err |-> Nil]

\* Repo.State(), the map being visited in the order `order`.
State(order, fs, bad) == StateLoop(order, 1, fs, bad)

\* The sets of files on which os.Stat fails with an error other than "not
\* exist" during one call: none, all of them (.git cannot be searched), or
\* the files of a directory that exists and cannot be searched.
StatFailures(fs) ==
    {{}, MarkerFiles}
    \cup {{f \in MarkerFiles : ParentOf(f) = d} : d \in {"rebase-merge", "rebase-apply"} \cap fs}

\* What a call of State() may return when .git holds the marker files fs.
StateOutcomes(fs) ==
    {State(order, fs, bad) : order \in IterationOrders, bad \in StatFailures(fs)}

\* ------------------------------------------------------------------------
\* Bytes of the texts the code inspects
\* ------------------------------------------------------------------------
chSpace == 32
chM == 77
chA == 65
chD == 68
chR == 82
chC == 67
chU == 85
chNewline == 10
chDash == 45
chGreater == 62

Bytes == 0..255

\* The separator " -> " of the two paths of a rename or copy.
PathSeparator == <<chSpace, chDash, chGreater, chSpace>>

\* The bytes strings.TrimSpace removes: \t \n \v \f \r and space.
IsSpace(b) == b \in {9, 10, 11, 12, 13, 32}

RECURSIVE TrimLeft(_)
TrimLeft(s) ==
    IF s # <<>> /\ IsSpace(Head(s)) THEN TrimLeft(Tail(s)) ELSE s

RECURSIVE TrimRight(_)
TrimRight(s) ==
    IF s # <<>> /\ IsSpace(s[Len(s)]) THEN TrimRight(SubSeq(s, 1, Len(s) - 1)) ELSE s

\* strings.TrimSpace on a text without multi-byte white space.
TrimSpace(s) == TrimRight(TrimLeft(s))

\* ------------------------------------------------------------------------
\* CherryPickHead
\* ------------------------------------------------------------------------
\* Repo.CherryPickHead() when .git holds the marker files `fs` and
\* CHERRY_PICK_HEAD, if it exists, has the content `content`.
CherryPickHead(fs, content) ==
    IF "CHERRY_PICK_HEAD" \notin fs THEN [oid |-> <<>>, err |-> ReadError]
    ELSE [oid |-> TrimSpace(content), err |-> Nil]

\* ------------------------------------------------------------------------
\* CherryPick
\* ------------------------------------------------------------------------
\* The result of State() in a CherryPick call that did not call it.
NoState == [state |-> StateNone, err |-> Nil]

\* A CherryPick that returns the error of the State() query when it fails.
CherryPickStateErr(cached, env, run, st) ==
    LET rg == runGit(FALSE, cached, env, run)
    IN  IF rg.err # Nil
        THEN IF st.err # Nil
             THEN [rg |-> rg, st |-> st, ok |-> FALSE, err |-> st.err,
                   written |-> rg.written \o Fprintf(rg.stderr)]
             ELSE IF st.state = StateCherryPick
             THEN [rg |-> rg, st |-> st, ok |-> FALSE, err |-> Nil, written |-> rg.written]
             ELSE [rg |-> rg, st |-> st, ok |-> FALSE, err |-> rg.err,
                   written |-> rg.written]
        ELSE [rg |-> rg, st |-> NoState, ok |-> TRUE, err |-> Nil, written |-> rg.written]

\* Repo.CherryPick(commit): `run` is the outcome of cmd.Run() and `st` what
\* r.State() returns once the command is over, should it be called.  The
\* result carries the returned (bool, error), the texts written to
\* os.Stderr during the call, the result of the runGit call, and the result
\* of the State() call when it was made.
CherryPick(cached, env, run, st) ==
    LET rg == runGit(FALSE, cached, env, run)
    IN  IF rg.err # Nil
        THEN IF st.err # Nil
             THEN [rg |-> rg, st |-> st, ok |-> FALSE, err |-> rg.err,
                   written |-> rg.written \o Fprintf(rg.stderr)]
             ELSE IF st.state = StateCherryPick
             THEN [rg |-> rg, st |-> st, ok |-> FALSE, err |-> Nil, written |-> rg.written]
             ELSE [rg |-> rg, st |-> st, ok |-> FALSE, err |-> rg.err,
                   written |-> rg.written]
        ELSE [rg |-> rg, st |-> NoState, ok |-> TRUE, err |-> Nil, written |-> rg.written]

\* ------------------------------------------------------------------------
\* statusFlagForChar and parseStatus
\* ------------------------------------------------------------------------
StatusFlagUnmodified == 0
StatusFlagModified == 1
StatusFlagAdded == 2
StatusFlagDeleted == 3
StatusFlagRenamed == 4
StatusFlagCopied == 5
StatusFlagUnmergedUpdated == 6

\* The error of fmt.Errorf("Unknown status flag `%c`", c).
ErrUnknownFlag(c) == <<"Unknown status flag", c>>
\* The error of errors.New("Status line too short").
ErrTooShort == <<"Status line too short">>

\* A statusFlagForChar that maps U to StatusFlagUnmodified.
statusFlagForCharUnmerged(c) ==
    CASE c = chSpace -> [flag |-> StatusFlagUnmodified, err |-> Nil]
      [] c = chM     -> [flag |-> StatusFlagModified, err |-> Nil]
      [] c = chA     -> [flag |-> StatusFlagAdded, err |-> Nil]
      [] c = chD     -> [flag |-> StatusFlagDeleted, err |-> Nil]
      [] c = chR     -> [flag |-> StatusFlagRenamed, err |-> Nil]
      [] c = chC     -> [flag |-> StatusFlagCopied, err |-> Nil]
      [] c = chU     -> [flag |-> StatusFlagUnmodified, err |-> Nil]
      [] OTHER       -> [flag |-> 0, err |-> ErrUnknownFlag(c)]

\* statusFlagForChar(c): the returned (StatusFlag, error).
statusFlagForChar(c) ==
    CASE c = chSpace -> [flag |-> StatusFlagUnmodified, err |-> Nil]
      [] c = chM     -> [flag |-> StatusFlagModified, err |-> Nil]
      [] c = chA     -> [flag |-> StatusFlagAdded, err |-> Nil]
      [] c = chD     -> [flag |-> StatusFlagDeleted, err |-> Nil]
      [] c = chR     -> [flag |-> StatusFlagRenamed, err |-> Nil]
      [] c = chC     -> [flag |-> StatusFlagCopied, err |-> Nil]
      [] c = chU     -> [flag |-> StatusFlagUnmergedUpdated, err |-> Nil]
      [] OTHER       -> [flag |-> 0, err |-> ErrUnknownFlag(c)]

\* s[from..] of Go, `from` counted from 1.
Suffix(s, from) == SubSeq(s, from, Len(s))

\* sep occurs in s at position i.
OccursAt(s, sep, i) ==
    /\ i + Len(sep) - 1 <= Len(s)
    /\ SubSeq(s, i, i + Len(sep) - 1) = sep

RECURSIVE IndexFrom(_, _, _)
\* strings.Index: the position of the first occurrence of sep in s at or
\* after position i, 0 when there is none.
IndexFrom(s, sep, i) ==
    IF i + Len(sep) - 1 > Len(s) THEN 0
    ELSE IF OccursAt(s, sep, i) THEN i
    ELSE IndexFrom(s, sep, i + 1)

RECURSIVE Split(_, _)
\* strings.Split(s, sep) for a non-empty sep.
Split(s, sep) ==
    LET i == IndexFrom(s, sep, 1)
    IN  IF i = 0 THEN <<s>>
        ELSE <<SubSeq(s, 1, i - 1)>> \o Split(Suffix(s, i + Len(sep)), sep)

RECURSIVE LastIndexFrom(_, _, _)
LastIndexFrom(s, sep, i) ==
    IF i < 1 THEN 0
    ELSE IF OccursAt(s, sep, i) THEN i
    ELSE LastIndexFrom(s, sep, i - 1)

\* A split in two at the last occurrence of sep.
SplitLast2(s, sep) ==
    LET i == LastIndexFrom(s, sep, Len(s))
    IN  IF i = 0 THEN <<s>>
        ELSE <<SubSeq(s, 1, i - 1), Suffix(s, i + Len(sep))>>

\* strings.SplitN(s, sep, 2) for a non-empty sep.
SplitN2(s, sep) ==
    LET i == IndexFrom(s, sep, 1)
    IN  IF i = 0 THEN <<s>>
        ELSE <<SubSeq(s, 1, i - 1), Suffix(s, i + Len(sep))>>

\* The body of the loop of parseStatus for a line that is not empty and
\* not too short: the entry and the error.
parseLine(line) ==
    LET index == statusFlagForChar(line[1])
        tree  == statusFlagForChar(line[2])
        paths == SplitN2(Suffix(line, 4), PathSeparator)
    IN  IF index.err # Nil THEN [s |-> <<>>, err |-> index.err]
        ELSE IF tree.err # Nil THEN [s |-> <<>>, err |-> tree.err]
        ELSE [s |-> [OldPath |-> paths[1],
                     NewPath |-> IF Len(paths) = 2 THEN paths[2] ELSE <<>>,
                     IndexStatus |-> index.flag,
                     WorkTreeStatus |-> tree.flag],
              err |-> Nil]

RECURSIVE parseLoopKeeping(_, _, _)
\* A loop that returns the entries parsed so far along with the error.
parseLoopKeeping(lines, i, ss) ==
    IF i > Len(lines) THEN [ss |-> ss, err |-> Nil]
    ELSE IF lines[i] = <<>> THEN parseLoopKeeping(lines, i + 1, ss)
    ELSE IF Len(lines[i]) < 4 THEN [ss |-> ss, err |-> ErrTooShort]
    ELSE LET r == parseLine(lines[i])
         IN  IF r.err # Nil THEN [ss |-> ss, err |-> r.err]
             ELSE parseLoopKeeping(lines, i + 1, Append(ss, r.s))

RECURSIVE parseLoop(_, _, _)
\* The loop of parseStatus from lines[i] on, ss being the entries so far.
\* A nil slice is the empty sequence.
parseLoop(lines, i, ss) ==
    IF i > Len(lines) THEN [ss |-> ss, err |-> Nil]
    ELSE IF lines[i] = <<>> THEN parseLoop(lines, i + 1, ss)
    ELSE IF Len(lines[i]) < 4 THEN [ss |-> <<>>, err |-> ErrTooShort]
    ELSE LET r == parseLine(lines[i])
         IN  IF r.err # Nil THEN [ss |-> <<>>, err |-> r.err]
             ELSE parseLoop(lines, i + 1, Append(ss, r.s))

\* parseStatus(output): the returned ([]status, error).
parseStatus(output) == parseLoop(Split(output, <<chNewline>>), 1, <<>>)

\* Add, CommitReuse, CommitAmend, ResetHard and CherryPickContinue: one
\* runGit call with the passthrough on, whose error is returned.
PassThroughOps == {"Add", "CommitReuse", "CommitAmend", "ResetHard", "CherryPickContinue"}

PassThrough(cached, env, run) ==
    LET rg == runGit(TRUE, cached, env, run)
    IN  [rg |-> rg, err |-> rg.err, written |-> rg.written]

\* The error of os.Remove.
RemoveError == <<"remove: no such file, or directory not empty">>

\* Repo.RemoveGitFile(name): os.Remove removes a file or an empty directory.
RemoveGitFile(name, fs) ==
    IF name \in fs /\ ~(\E g \in fs : ParentOf(g) = name)
    THEN [fs |-> fs \ {name}, err |-> Nil]
    ELSE [fs |-> fs, err |-> RemoveError]

\* ------------------------------------------------------------------------
\* The environment: the git program and the file system
\* ------------------------------------------------------------------------
\* The marker files a finished sequence of commits leaves behind.
OperationHeads == {"MERGE_HEAD", "REVERT_HEAD", "CHERRY_PICK_HEAD"}

\* Contents git gives CHERRY_PICK_HEAD: a (shortened) hash and a newline.
HeadContents == {<<49, 97, chNewline>>, <<50, 98, chNewline>>}

\* The marker files after the git process of operation `op` is over: the
\* sets of files the process may leave, given the files `fs` before it.
GitLeaves(op, run, started, fs) ==
    IF ~started \/ ~Ran(run) THEN {fs}
    ELSE IF op = "CherryPick"
         THEN IF run.err = Nil THEN {fs \ {"CHERRY_PICK_HEAD"}}
              ELSE {fs, fs \cup {"CHERRY_PICK_HEAD"}}
    ELSE IF op \in {"CommitReuse", "CommitAmend", "ResetHard"} /\ run.err = Nil
         THEN {fs \ OperationHeads}
    ELSE IF op = "CherryPickContinue" /\ run.err = Nil
         THEN {fs \ {"CHERRY_PICK_HEAD"}}
    ELSE {fs}

\* ------------------------------------------------------------------------
\* State of the process and of its environment
\* ------------------------------------------------------------------------
VARIABLES
    gitPath,     \* the package variable gitPath
    calls,       \* number of getGitPath calls made so far
    pathEnv,     \* where the search path finds git now, "" when nowhere
    files,       \* the marker files that exist under .git
    headContent, \* the content of CHERRY_PICK_HEAD, <<>> when it does not exist
    output,      \* the text handed to parseStatus or statusFlagForChar
    last         \* the last step: the operation, its inputs and what it returned

vars == <<gitPath, calls, pathEnv, files, headContent, output, last>>

NoRun == [err |-> Nil, stdout |-> <<>>, stderr |-> ""]

\* A step of the environment.
External == [op |-> "external", run |-> NoRun, res |-> <<>>, pre |-> {}]

Init ==
    /\ gitPath = ""
    /\ calls = 0
    /\ pathEnv \in {""} \cup GitLocations
    /\ files = {}
    /\ headContent = <<>>
    /\ output = <<>>
    /\ last = External

\* The outcomes of cmd.Run() in a runGit call made now.
RunsNow(outs) ==
    LET gp == getGitPath(gitPath, pathEnv)
    IN  IF gp.err # Nil THEN {NoRun} ELSE CmdRuns(gp.path, pathEnv, outs)

\* The files and the content of CHERRY_PICK_HEAD after a git process.
FilesBecome(fs) ==
    /\ Cardinality(fs) <= MaxMarkers
    /\ files' = fs
    /\ IF "CHERRY_PICK_HEAD" \notin fs THEN headContent' = <<>>
       ELSE IF "CHERRY_PICK_HEAD" \in files THEN headContent' = headContent
       ELSE headContent' \in HeadContents

DoPassThrough(op) ==
    /\ calls < MaxCalls
    /\ \E run \in RunsNow({<<>>}) :
         LET res == PassThrough(gitPath, pathEnv, run)
         IN  /\ gitPath' = res.rg.gitPath
             /\ calls' = calls + 1
             /\ \E fs \in GitLeaves(op, run, res.rg.started, files) : FilesBecome(fs)
             /\ last' = [op |-> "PassThrough", run |-> run, res |-> res, pre |-> files]
             /\ UNCHANGED <<pathEnv, output>>

DoCherryPick ==
    /\ calls < MaxCalls
    /\ \E run \in RunsNow({<<>>}) :
         LET rg == runGit(FALSE, gitPath, pathEnv, run)
         IN  \E fs \in GitLeaves("CherryPick", run, rg.started, files) :
               \E st \in (IF rg.err # Nil THEN StateOutcomes(fs) ELSE {NoState}) :
                 LET res == CherryPick(gitPath, pathEnv, run, st)
                 IN  /\ gitPath' = res.rg.gitPath
                     /\ calls' = calls + 1
                     /\ FilesBecome(fs)
                     /\ last' = [op |-> "CherryPick", run |-> run, res |-> res,
                                 pre |-> files]
                     /\ UNCHANGED <<pathEnv, output>>

DoState ==
    \E st \in StateOutcomes(files) :
        /\ last' = [op |-> "State", run |-> NoRun, res |-> st, pre |-> files]
        /\ UNCHANGED <<gitPath, calls, pathEnv, files, headContent, output>>

DoCherryPickHead ==
    /\ last' = [op |-> "CherryPickHead", run |-> NoRun,
                res |-> CherryPickHead(files, headContent), pre |-> files]
    /\ UNCHANGED <<gitPath, calls, pathEnv, files, headContent, output>>

DoRemoveGitFile ==
    \E name \in MarkerFiles :
        LET res == RemoveGitFile(name, files)
        IN  /\ files' = res.fs
            /\ headContent' = IF "CHERRY_PICK_HEAD" \in res.fs THEN headContent ELSE <<>>
            /\ last' = [op |-> "RemoveGitFile", run |-> NoRun, res |-> res, pre |-> files]
            /\ UNCHANGED <<gitPath, calls, pathEnv, output>>

\* Another program starts an operation: a marker file appears.
ExternalMarker ==
    \E f \in MarkerFiles \ files :
        /\ ValidFiles(files \cup {f})
        /\ FilesBecome(files \cup {f})
        /\ last' = External
        /\ UNCHANGED <<gitPath, calls, pathEnv, output>>

\* git is installed, removed or moved on the search path.
ExternalPath ==
    /\ pathEnv' \in ({""} \cup GitLocations) \ {pathEnv}
    /\ last' = External
    /\ UNCHANGED <<gitPath, calls, files, headContent, output>>

Next ==
    \/ \E op \in PassThroughOps : DoPassThrough(op)
    \/ DoCherryPick
    \/ DoState
    \/ DoCherryPickHead
    \/ DoRemoveGitFile
    \/ ExternalMarker
    \/ ExternalPath

Spec == Init /\ [][Next]_vars

\* ------------------------------------------------------------------------
\* The pure functions on bounded inputs
\* ------------------------------------------------------------------------
RECURSIVE Concat(_)
\* The concatenation of a sequence of texts.
Concat(ts) == IF ts = <<>> THEN <<>> ELSE Head(ts) \o Concat(Tail(ts))

RECURSIVE Join(_, _)
\* The texts of ls with sep between them.
Join(ls, sep) ==
    IF ls = <<>> THEN <<>>
    ELSE IF Len(ls) = 1 THEN ls[1]
    ELSE ls[1] \o sep \o Join(Tail(ls), sep)

\* Sequences of at most n elements of S.
SeqUpTo(S, n) == UNION {[1..k -> S] : k \in 0..n}

\* Path payloads: up to MaxTokens of a letter, a space and the separator.
PayloadTokens == {<<97>>, <<chSpace>>, PathSeparator}
Payloads == {Concat(ts) : ts \in SeqUpTo(PayloadTokens, MaxTokens)}

\* Status characters of the sample lines: four known ones and T (type
\* changed), which git prints and statusFlagForChar does not know.
SampleChars == {chM, chU, chSpace, 84}

\* Lines of a porcelain output: every pair of sample characters before a
\* one-letter path, every payload after "R  ", the empty line and lines
\* of one to three bytes.
SampleLines ==
    {<<a, b, chSpace, 97>> : a \in SampleChars, b \in SampleChars}
    \cup {<<chR, chSpace, chSpace>> \o p : p \in Payloads}
    \cup {<<>>, <<chM>>, <<chM, chSpace>>}

ParseInputs == {Join(ls, <<chNewline>>) : ls \in SeqUpTo(SampleLines, MaxLines)}

\* The state of the process before any operation.
Fresh ==
    /\ gitPath = ""
    /\ calls = 0
    /\ pathEnv = ""
    /\ files = {}
    /\ headContent = <<>>
    /\ last = External

InitParse == Fresh /\ output \in ParseInputs

DoParseStatus ==
    /\ last' = [op |-> "parseStatus", run |-> NoRun, res |-> parseStatus(output), pre |-> {}]
    /\ UNCHANGED <<gitPath, calls, pathEnv, files, headContent, output>>

SpecParse == InitParse /\ [][DoParseStatus]_vars

InitFlag == Fresh /\ output \in {<<c>> : c \in Bytes}

DoStatusFlagForChar ==
    /\ last' = [op |-> "statusFlagForChar", run |-> NoRun,
                res |-> statusFlagForChar(output[1]), pre |-> {}]
    /\ UNCHANGED <<gitPath, calls, pathEnv, files, headContent, output>>

SpecFlag == InitFlag /\ [][DoStatusFlagForChar]_vars

\* ------------------------------------------------------------------------
\* Properties
\* ------------------------------------------------------------------------
\* The last step was an operation that called runGit.
CalledRunGit(l) == l.op \in {"PassThrough", "CherryPick"}

\* cmd.Run() was called in the last step and returned an error.
RunFailed(l) == l.res.rg.started /\ l.run.err # Nil

\* cmd.Run() was called in the last step and returned no error.
RunSucceeded(l) == l.res.rg.started /\ l.run.err = Nil

\* The error of the git invocation of the last step.
InvocationError(l) == IF l.res.rg.started THEN l.run.err ELSE ErrNotFound

\* C1: two State() calls in a row on the same marker files, neither of
\* which had an existence check fail, return the same state.
C1_StateDeterministic ==
    [][(/\ last.op = "State" /\ last'.op = "State"
        /\ last.res.err = Nil /\ last'.res.err = Nil
        /\ files' = files)
       => last'.res.state = last.res.state]_vars

\* C2: a CherryPick whose git process exits non-zero and leaves
\* CHERRY_PICK_HEAD under .git, and whose State() query does not fail,
\* returns (false, nil), the state being StateCherryPick.
C2_ConflictIsNotAnError ==
    (/\ last.op = "CherryPick"
     /\ last.res.rg.started /\ last.run.err = ExitError
     /\ "CHERRY_PICK_HEAD" \in files
     /\ last.res.st.err = Nil)
    => (/\ last.res.ok = FALSE
        /\ last.res.err = Nil
        /\ last.res.st.state = StateCherryPick)

\* C3: CherryPick returns (true, nil) exactly when the git invocation
\* succeeded; when it failed and the State() query failed or reported a
\* state other than StateCherryPick, CherryPick returns false and the
\* error of the invocation, which is not nil and not the error of State().
C3_CherryPickResult ==
    last.op = "CherryPick"
    => (/\ (last.res.ok /\ last.res.err = Nil) <=> RunSucceeded(last)
        /\ last.res.ok => last.res.err = Nil
        /\ (/\ ~RunSucceeded(last)
            /\ (last.res.st.err # Nil \/ last.res.st.state # StateCherryPick))
           => (/\ last.res.ok = FALSE
               /\ last.res.err = InvocationError(last)
               /\ last.res.err # Nil
               /\ last.res.err # StatError))

\* A CherryPick whose git process exited non-zero and whose State() query
\* failed returned the error of the process.
C3_Witness ==
    /\ last.op = "CherryPick"
    /\ last.res.rg.started /\ last.run.err = ExitError
    /\ last.res.st.err = StatError
    /\ last.res.ok = FALSE /\ last.res.err = ExitError

\* The marker file of a state, from the table of the specification.
MarkerOf(state) ==
    CASE state = 1 -> "rebase-merge/interactive"
      [] state = 2 -> "rebase-merge"
      [] state = 3 -> "rebase-apply/rebasing"
      [] state = 4 -> "rebase-apply/applying"
      [] state = 5 -> "rebase-apply"
      [] state = 6 -> "MERGE_HEAD"
      [] state = 7 -> "REVERT_HEAD"
      [] state = 8 -> "CHERRY_PICK_HEAD"
      [] state = 9 -> "BISECT_LOG"
      [] OTHER     -> ""

\* C7: a State() call that returns no error returns StateNone if and only
\* if no marker file exists, and otherwise a state whose own marker file
\* exists (StateMerge when MERGE_HEAD is the only one); the call leaves the
\* files as they were.
C7_StateResult ==
    (last.op = "State" /\ last.res.err = Nil)
    => (/\ last.res.state = 0 <=> files = {}
        /\ last.res.state # 0 => MarkerOf(last.res.state) \in files
        /\ files = {"MERGE_HEAD"} => last.res.state = 6
        /\ files = last.pre)

\* With MERGE_HEAD and BISECT_LOG both present, State() reported the
\* state of one of them.
C7_Witness ==
    /\ last.op = "State" /\ last.res.err = Nil
    /\ files = {"MERGE_HEAD", "BISECT_LOG"}
    /\ last.res.state = 6

\* C8 as stated: only the first call of getGitPath searches.
C8_SearchOnFirstCallOnly ==
    (CalledRunGit(last) /\ last.res.rg.searched) => calls = 1

\* C8 as amended: while a path is cached no call searches and the cached
\* path does not change; a call made while none is cached searches, and it
\* caches the path found or, when none is found, returns the not-found
\* error and caches nothing.
C8_SearchUntilFound ==
    [][/\ gitPath # ""
          => (/\ gitPath' = gitPath
              /\ CalledRunGit(last') => (~last'.res.rg.searched /\ last'.res.rg.started))
       /\ (gitPath = "" /\ calls' = calls + 1)
          => (/\ last'.res.rg.searched
              /\ pathEnv = "" => (last'.res.rg.err = ErrNotFound /\ gitPath' = "")
              /\ pathEnv # "" => gitPath' = pathEnv)]_vars

\* A second call reused the cached path although git has moved since.
C8_Witness ==
    /\ calls = 2
    /\ CalledRunGit(last) /\ ~last.res.rg.searched
    /\ gitPath # "" /\ pathEnv # "" /\ pathEnv # gitPath

\* C9 as stated: with the passthrough suppressed no failure of cmd.Run()
\* writes the captured stderr, without suppression every failure writes it,
\* a success never writes it, and the captured texts and the error are
\* returned.
C9_PassthroughSuppressible ==
    (CalledRunGit(last) /\ last.res.rg.started)
    => (/\ (RunFailed(last) /\ ~last.res.rg.printError) => last.res.rg.written = <<>>
        /\ (RunFailed(last) /\ last.res.rg.printError)
           => last.res.rg.written = Fprintf(last.run.stderr)
        /\ RunSucceeded(last) => last.res.rg.written = <<>>
        /\ last.res.rg.stdout = last.run.stdout
        /\ last.res.rg.stderr = last.run.stderr
        /\ last.res.rg.err = last.run.err)

\* C9 as amended: with the passthrough suppressed a non-zero exit writes
\* nothing, and any other error of cmd.Run() writes the captured stderr all
\* the same; without suppression every failure of cmd.Run() writes it; a
\* success never writes it; the captured texts and the error are returned.
\* When git is not found nothing is run or written, and empty texts are
\* returned with the error of the lookup.
C9_ExitErrorSuppressible ==
    CalledRunGit(last)
    => IF last.res.rg.started
       THEN /\ last.res.rg.written =
                 IF last.run.err = Nil THEN <<>>
                 ELSE IF last.run.err = ExitError /\ ~last.res.rg.printError THEN <<>>
                 ELSE Fprintf(last.run.stderr)
            /\ last.res.rg.stdout = last.run.stdout
            /\ last.res.rg.stderr = last.run.stderr
            /\ last.res.rg.err = last.run.err
       ELSE /\ last.res.rg.written = <<>>
            /\ last.res.rg.stdout = <<>>
            /\ last.res.rg.stderr = ""
            /\ last.res.rg.err = ErrNotFound

\* A suppressed call whose process exited non-zero with text on its stderr
\* wrote nothing and returned the text.
C9_Witness ==
    /\ last.op = "CherryPick" /\ ~last.res.rg.printError
    /\ last.run.err = ExitError /\ last.run.stderr # ""
    /\ last.res.rg.started
    /\ last.res.rg.written = <<>>
    /\ last.res.rg.stderr = last.run.stderr

\* C10: one CherryPick call writes the captured stderr at most once: not
\* at all when the invocation succeeded or ended in a conflict, and, when
\* the invocation failed and the State() query failed, exactly once (there
\* being nothing to write when nothing was captured).
C10_WrittenAtMostOnce ==
    last.op = "CherryPick"
    => (/\ Len(last.res.written) <= 1
        /\ RunSucceeded(last) => last.res.written = <<>>
        /\ (/\ RunFailed(last) /\ last.run.err = ExitError
            /\ last.res.st.err = Nil /\ last.res.st.state = StateCherryPick)
           => last.res.written = <<>>
        /\ (~RunSucceeded(last) /\ last.res.st.err # Nil)
           => last.res.written = Fprintf(last.res.rg.stderr))

\* The characters of the known set and the flag of each, from the table
\* of the specification.
KnownChars == {32, 77, 65, 68, 82, 67, 85}

ExpectedFlag(c) ==
    CASE c = 32 -> 0
      [] c = 77 -> 1
      [] c = 65 -> 2
      [] c = 68 -> 3
      [] c = 82 -> 4
      [] c = 67 -> 5
      [] c = 85 -> 6

LineStarts(t) ==
    {i \in 1..Len(t) : t[i] # 10 /\ (i = 1 \/ t[i - 1] = 10)}

\* The non-empty line of t that starts at position i.
LineAt(t, i) ==
    LET j == CHOOSE k \in i..Len(t) :
                 /\ \A m \in i..k : t[m] # 10
                 /\ (k = Len(t) \/ t[k + 1] = 10)
    IN  SubSeq(t, i, j)

\* The n-th non-empty line of t.
NthLine(t, n) ==
    LET i == CHOOSE k \in LineStarts(t) :
                 Cardinality({m \in LineStarts(t) : m < k}) = n - 1
    IN  LineAt(t, i)

WellFormed(line) ==
    Len(line) >= 4 /\ line[1] \in KnownChars /\ line[2] \in KnownChars

AllWellFormed(t) == \A i \in LineStarts(t) : WellFormed(LineAt(t, i))

\* " -> " stands in payload p at position i.
SeparatorAt(p, i) ==
    /\ i >= 1 /\ i + 3 <= Len(p)
    /\ p[i] = 32 /\ p[i + 1] = 45 /\ p[i + 2] = 62 /\ p[i + 3] = 32

\* old and new are the two paths of payload p.
PathsOf(p, old, new) ==
    IF \E i \in 1..Len(p) : SeparatorAt(p, i)
    THEN /\ old \o <<32, 45, 62, 32>> \o new = p
         /\ \A i \in 1..Len(old) : ~SeparatorAt(p, i)
    ELSE old = p /\ new = <<>>

\* C5: parseStatus returns a nil error exactly when every non-empty line is
\* at least 4 characters long and has known characters at positions 0 and
\* 1; when it returns an error it returns no entries.
C5_AllOrNothing ==
    last.op = "parseStatus"
    => (/\ last.res.err = Nil <=> AllWellFormed(output)
        /\ last.res.err # Nil => last.res.ss = <<>>)

\* An input whose first line is well-formed and whose second is not gave
\* an error and no entry.
C5_Witness ==
    /\ last.op = "parseStatus"
    /\ Cardinality(LineStarts(output)) = 2
    /\ WellFormed(NthLine(output, 1)) /\ ~WellFormed(NthLine(output, 2))
    /\ last.res.err # Nil /\ last.res.ss = <<>>

\* C6: for an input whose non-empty lines are all well-formed, parseStatus
\* returns one entry per non-empty line, in input order, with the flags of
\* positions 0 and 1 and the payload from position 3 split at the first
\* " -> ", NewPath being empty when there is none.
C6_EntryPerLine ==
    (last.op = "parseStatus" /\ AllWellFormed(output))
    => (/\ last.res.err = Nil
        /\ Len(last.res.ss) = Cardinality(LineStarts(output))
        /\ \A n \in 1..Len(last.res.ss) :
             LET line == NthLine(output, n)
                 s == last.res.ss[n]
             IN  /\ s.IndexStatus = ExpectedFlag(line[1])
                 /\ s.WorkTreeStatus = ExpectedFlag(line[2])
                 /\ PathsOf(SubSeq(line, 4, Len(line)), s.OldPath, s.NewPath))

\* Two lines were parsed, the first with a payload of two separators,
\* split at the first one.
C6_Witness ==
    /\ last.op = "parseStatus"
    /\ last.res.err = Nil
    /\ Len(last.res.ss) = 2
    /\ last.res.ss[1].OldPath = <<>>
    /\ last.res.ss[1].NewPath = <<32, 45, 62, 32>>
    /\ last.res.ss[2].NewPath = <<>>

====
